---- MODULE Spec2Model ----
(***************************************************************************)
(* CPU scheduling simulator: the Process record (process.py), the          *)
(* Scheduler with its FCFS and Round Robin loops (scheduler.py) and the    *)
(* commands of the CLI that drive them (main.py).                          *)
(***************************************************************************)
EXTENDS Integers, Sequences, FiniteSets, TLC

\* ------------------------------------------------------------------ bounds
MaxProcs == 2       \* processes created between two resets
MaxArrival == 2     \* largest arrival time entered
MaxBurst == 2       \* largest burst time entered
MaxQuantum == 2     \* largest time quantum entered

\* --------------------------------------------------------------- constants
None == -1          \* Python's None in the integer-valued fields
IdlePid == 0        \* the pid the Gantt chart uses for an idle interval
FirstPid == 1       \* Process.next_pid at start and after reset

VARIABLES
    next_pid,                  \* Process.next_pid
    procs,                     \* the Process objects created, by pid
    all_processes,             \* Scheduler.all_processes (pids)
    ready_queue,               \* Scheduler.ready_queue (pids)
    current_time,              \* Scheduler.current_time
    cpu_idle_time,             \* Scheduler.cpu_idle_time
    current_running_process,   \* Scheduler.current_running_process (pid or None)
    gantt_chart,               \* Scheduler.gantt_chart
    completed_processes_count, \* local of the run methods
    time_quantum,              \* parameter of run_round_robin
    slice_left,                \* iterations left of "for _ in range(execution_slice)"
    idle_left,                 \* iterations left of "for _ in range(idle_duration)"
    current_strategy,          \* run_cli's current_strategy
    pc,                        \* position of the program
    start_exec_time,           \* local start_exec_time of the run methods
    cli_output,                \* what the command at hand has printed
    admit_log,                 \* the "arrived and added to ready queue" log of the run
    first_run                  \* report of the first run on the registered set

vars == <<next_pid, procs, all_processes, ready_queue, current_time,
          cpu_idle_time, current_running_process, gantt_chart,
          completed_processes_count, time_quantum, slice_left, idle_left,
          start_exec_time, current_strategy, pc, cli_output, admit_log,
          first_run>>

schedVars == <<ready_queue, current_time, cpu_idle_time,
               current_running_process, gantt_chart>>
runLocals == <<completed_processes_count, time_quantum, slice_left, idle_left,
               start_exec_time>>

\* ----------------------------------------------------------------- helpers
Min(a, b) == IF a <= b THEN a ELSE b

Range(s) == {s[i] : i \in 1..Len(s)}

IndexOf(s, x) == CHOOSE i \in 1..Len(s) : s[i] = x

\* ------------------------------------------------------------ process.py
\* Process.__init__
NewProcess(pid, arrival, burst) ==
    [pid |-> pid, arrival_time |-> arrival, burst_time |-> burst,
     remaining_burst_time |-> burst, start_time |-> None,
     completion_time |-> None, waiting_time |-> 0, turnaround_time |-> 0,
     response_time |-> None]

\* Process.calculate_metrics
calculate_metrics(p) ==
    IF p.completion_time = None \/ p.start_time = None
    THEN p
    ELSE [p EXCEPT !.turnaround_time = p.completion_time - p.arrival_time,
                   !.waiting_time = (p.completion_time - p.arrival_time) - p.burst_time]

\* ---------------------------------------------------------- scheduler.py
\* list.sort(key=arrival_time) is stable: an element goes behind every
\* element whose key is not larger.
RECURSIVE InsertByArrival(_, _, _)
InsertByArrival(s, x, P) ==
    IF s = <<>> THEN <<x>>
    ELSE IF P[s[Len(s)]].arrival_time <= P[x].arrival_time
         THEN Append(s, x)
         ELSE Append(InsertByArrival(SubSeq(s, 1, Len(s) - 1), x, P), s[Len(s)])

\* no sort after the append
SortByArrivalMissing(s, P) == s

RECURSIVE SortByArrival(_, _)
SortByArrival(s, P) ==
    IF s = <<>> THEN <<>>
    ELSE InsertByArrival(SortByArrival(SubSeq(s, 1, Len(s) - 1), P), s[Len(s)], P)

\* no sort of the newly arrived
SortByPidMissing(s) == s

\* newly_arrived.sort(key=lambda p: p.pid)
SortByPid(s) == SortSeq(s, LAMBDA a, b : a < b)

\* an admission that does not look at the arrival time
ArrivingBeforeArrival(p, P, rq, ct, crp) ==
    /\ P[p].remaining_burst_time > 0
    /\ p \notin Range(rq)
    /\ p # crp

\* the condition of _add_arriving_processes_to_ready_queue
Arriving(p, P, rq, ct, crp) ==
    /\ P[p].arrival_time <= ct
    /\ P[p].remaining_burst_time > 0
    /\ p \notin Range(rq)
    /\ p # crp

\* newly_arrived of _add_arriving_processes_to_ready_queue
NewlyArrived(P, rq, ct, crp) ==
    SortByPid(SelectSeq(all_processes, LAMBDA p : Arriving(p, P, rq, ct, crp)))

\* _add_arriving_processes_to_ready_queue: the ready queue it leaves
AddArriving(P, rq, ct, crp) == rq \o NewlyArrived(P, rq, ct, crp)

\* a chart entry that starts at the clock after the tick
GanttTickLate(pid, ct) == <<pid, ct, ct + 1>>

\* one Gantt chart entry for the tick that ends at the clock ct
GanttTick(pid, ct) == <<pid, ct - 1, ct>>

\* a completion test that is off by one
IsCompletedEarly(p) == p.remaining_burst_time <= 1

\* "remaining_burst_time == 0"
IsCompleted(p) == p.remaining_burst_time = 0

\* a reset that leaves start_time and response_time behind
ResetProcessKeepsStart(p) ==
    [p EXCEPT !.remaining_burst_time = p.burst_time,
              !.completion_time = None, !.waiting_time = 0,
              !.turnaround_time = 0]

\* the reset of one process at the start of a run
ResetProcess(p) ==
    [p EXCEPT !.remaining_burst_time = p.burst_time, !.start_time = None,
              !.completion_time = None, !.waiting_time = 0,
              !.turnaround_time = 0, !.response_time = None]

\* a run that forgets the reset of the processes
ResetAllMissing(P) == P

\* the reset of every registered process
ResetAll(P) ==
    [p \in DOMAIN P |-> IF p \in Range(all_processes) THEN ResetProcess(P[p]) ELSE P[p]]

\* a dispatch that does not look at the occupant
ShouldDispatchAlways(crp, rq) == rq # <<>>

\* "if self.current_running_process is None and self.ready_queue"
ShouldDispatch(crp, rq) == crp = None /\ rq # <<>>

\* the dispatch: start_time and response_time are set on the first dispatch
\* a dispatch that sets the start at every dispatch
DispatchedAgain(p, ct) ==
    [p EXCEPT !.start_time = ct, !.response_time = ct - p.arrival_time]

Dispatched(p, ct) ==
    IF p.start_time = None
    THEN [p EXCEPT !.start_time = ct, !.response_time = ct - p.arrival_time]
    ELSE p

\* a completion stamped one tick late
CompletedLate(p, ct) == calculate_metrics([p EXCEPT !.completion_time = ct + 1])

\* the completion of the occupant at the clock ct
Completed(p, ct) == calculate_metrics([p EXCEPT !.completion_time = ct])

\* a loop whose body runs once more
LoopPcOnceMore(head, count) == IF count <= Len(all_processes) THEN head ELSE "display"

\* "while completed_processes_count < total_processes"
LoopPc(head, count) == IF count < Len(all_processes) THEN head ELSE "display"

\* cpu_utilization of display_results as it is printed with "{:.2f}": the
\* percentage in hundredths, rounded; 0 when the clock is 0
CpuUtilization(ct, idle) ==
    IF ct > 0 THEN (2 * (ct - idle) * 10000 + ct) \div (2 * ct) ELSE 0

\* the report a run leaves behind
Report ==
    [strategy |-> current_strategy, quantum |-> time_quantum,
     total |-> current_time, idle |-> cpu_idle_time,
     utilization |-> CpuUtilization(current_time, cpu_idle_time),
     trace |-> gantt_chart,
     table |-> [p \in Range(all_processes) |-> procs[p]]]

\* ------------------------------------------------------------------- Init
Init ==
    /\ next_pid = FirstPid
    /\ procs = <<>>
    /\ all_processes = <<>>
    /\ ready_queue = <<>>
    /\ current_time = 0
    /\ cpu_idle_time = 0
    /\ current_running_process = None
    /\ gantt_chart = <<>>
    /\ completed_processes_count = 0
    /\ time_quantum = None
    /\ slice_left = 0
    /\ idle_left = 0
    /\ start_exec_time = 0
    /\ current_strategy = "none"
    /\ cli_output = ""
    /\ pc = "cli"
    /\ admit_log = <<>>
    /\ first_run = <<>>

\* ---------------------------------------------------------------- main.py
\* Process(arrival, burst)
CreateProcess(arrival, burst) ==
    /\ pc = "cli"
    /\ next_pid < FirstPid + MaxProcs
    /\ procs' = Append(procs, NewProcess(next_pid, arrival, burst))
    /\ next_pid' = next_pid + 1
    /\ cli_output' = ""
    /\ UNCHANGED <<all_processes, schedVars, runLocals, current_strategy, pc,
                   admit_log, first_run>>

\* Scheduler.add_process
add_process(p) ==
    /\ pc = "cli"
    /\ p \in DOMAIN procs
    /\ p \notin Range(all_processes)
    /\ all_processes' = SortByArrival(Append(all_processes, p), procs)
    /\ first_run' = <<>>
    /\ cli_output' = ""
    /\ UNCHANGED <<next_pid, procs, schedVars, runLocals, current_strategy, pc,
                   admit_log>>

\* a validation that lets a burst of 0 through
ValidProcessZeroBurst(arrival, burst) == ~(arrival < 0 \/ burst < 0)

\* "if arrival < 0 or burst <= 0" of the add command, negated
ValidProcess(arrival, burst) == ~(arrival < 0 \/ burst <= 0)

\* the "add" command: the validation, Process(arrival, burst), add_process
AddCmd(arrival, burst) ==
    /\ pc = "cli"
    /\ IF ValidProcess(arrival, burst)
       THEN /\ next_pid < FirstPid + MaxProcs
            /\ LET P == Append(procs, NewProcess(next_pid, arrival, burst))
               IN /\ procs' = P
                  /\ all_processes' = SortByArrival(Append(all_processes, next_pid), P)
            /\ next_pid' = next_pid + 1
            /\ first_run' = <<>>
            /\ cli_output' = "added"
            /\ UNCHANGED <<schedVars, runLocals, current_strategy, pc, admit_log>>
       ELSE /\ cli_output' = "invalid_process"
            /\ UNCHANGED <<next_pid, procs, all_processes, schedVars, runLocals,
                           current_strategy, pc, admit_log, first_run>>

\* the "reset" command
ResetCmd ==
    /\ pc = "cli"
    /\ next_pid' = FirstPid
    /\ procs' = <<>>
    /\ all_processes' = <<>>
    /\ ready_queue' = <<>>
    /\ current_time' = 0
    /\ cpu_idle_time' = 0
    /\ current_running_process' = None
    /\ gantt_chart' = <<>>
    /\ first_run' = <<>>
    /\ admit_log' = <<>>
    /\ cli_output' = "reset"
    /\ UNCHANGED <<runLocals, current_strategy, pc>>

\* ------------------------------------------------------------- run_fcfs
\* "run fcfs": the resets of run_fcfs up to its loop
run_fcfs ==
    /\ pc = "cli"
    /\ current_strategy' = "fcfs"
    /\ time_quantum' = None
    /\ current_time' = 0
    /\ cpu_idle_time' = 0
    /\ gantt_chart' = <<>>
    /\ ready_queue' = <<>>
    /\ procs' = ResetAll(procs)
    /\ completed_processes_count' = 0
    /\ admit_log' = <<>>
    /\ pc' = LoopPc("fcfs_head", 0)
    /\ start_exec_time' = 0
    /\ cli_output' = ""
    /\ UNCHANGED <<next_pid, all_processes, current_running_process, slice_left,
                   idle_left, first_run>>

\* the admission at the head of the loop
FcfsAdmit ==
    /\ pc = "fcfs_head"
    /\ ready_queue' = AddArriving(procs, ready_queue, current_time, current_running_process)
    /\ admit_log' = admit_log \o NewlyArrived(procs, ready_queue, current_time, current_running_process)
    /\ pc' = "fcfs_exec"
    /\ UNCHANGED <<cli_output, next_pid,
                   procs, all_processes, current_time, cpu_idle_time,
                   current_running_process, gantt_chart, runLocals,
                   current_strategy, first_run>>

\* one iteration with an occupant: dispatch, one tick, completion, admission
FcfsRunTick ==
    /\ pc = "fcfs_exec"
    /\ current_running_process # None \/ ready_queue # <<>>
    /\ LET pick == ShouldDispatch(current_running_process, ready_queue)
           crp  == IF pick THEN Head(ready_queue) ELSE current_running_process
           rq1  == IF pick THEN Tail(ready_queue) ELSE ready_queue
           p1   == IF pick THEN Dispatched(procs[crp], current_time) ELSE procs[crp]
           p2   == [p1 EXCEPT !.remaining_burst_time = @ - 1]
           ct   == current_time + 1
           fin  == IsCompleted(p2)
           p3   == IF fin THEN Completed(p2, ct) ELSE p2
           P    == [procs EXCEPT ![crp] = p3]
           crp2 == IF fin THEN None ELSE crp
           cnt  == IF fin THEN completed_processes_count + 1 ELSE completed_processes_count
       IN /\ procs' = P
          /\ current_time' = ct
          /\ gantt_chart' = Append(gantt_chart, GanttTick(crp, ct))
          /\ current_running_process' = crp2
          /\ completed_processes_count' = cnt
          /\ ready_queue' = AddArriving(P, rq1, ct, crp2)
          /\ admit_log' = admit_log \o NewlyArrived(P, rq1, ct, crp2)
          /\ pc' = LoopPc("fcfs_head", cnt)
    /\ start_exec_time' = current_time
    /\ UNCHANGED <<cli_output, next_pid,
                   all_processes, cpu_idle_time, time_quantum,
                   slice_left, idle_left, current_strategy, first_run>>

\* one iteration without an occupant: one idle tick, admission
FcfsIdleTick ==
    /\ pc = "fcfs_exec"
    /\ current_running_process = None
    /\ ready_queue = <<>>
    /\ cpu_idle_time' = cpu_idle_time + 1
    /\ current_time' = current_time + 1
    /\ gantt_chart' = Append(gantt_chart, GanttTick(IdlePid, current_time + 1))
    /\ ready_queue' = AddArriving(procs, ready_queue, current_time + 1, None)
    /\ admit_log' = admit_log \o NewlyArrived(procs, ready_queue, current_time + 1, None)
    /\ pc' = LoopPc("fcfs_head", completed_processes_count)
    /\ UNCHANGED <<cli_output, next_pid,
                   procs, all_processes, current_running_process,
                   runLocals, current_strategy, first_run>>

\* ------------------------------------------------------ run_round_robin
\* the arrival times the idle advance looks at: not completed, after the clock
FutureArrivals(P, ct) ==
    {P[p].arrival_time : p \in {q \in Range(all_processes) :
        P[q].remaining_burst_time > 0 /\ P[q].arrival_time > ct}}

\* next_arrival_time, when it is not float('inf')
NextArrivalTime(P, ct) ==
    CHOOSE a \in FutureArrivals(P, ct) : \A b \in FutureArrivals(P, ct) : a <= b

\* an idle advance by the arrival time itself
IdleDurationAbsolute(next_arrival_time, ct) == next_arrival_time

\* idle_duration = next_arrival_time - self.current_time
IdleDuration(next_arrival_time, ct) == next_arrival_time - ct

\* a slice that ignores the quantum
ExecutionSliceWholeBurst(p, q) == p.remaining_burst_time

\* execution_slice = min(remaining_burst_time, time_quantum)
ExecutionSlice(p, q) == Min(p.remaining_burst_time, q)

\* the end of one iteration of the Round Robin loop, after its slice or its
\* idle tick: the two tests on an empty queue, then the loop's own test.
\* It yields the next position and the length of the idle advance.
RRLoopEnd(P, rq, crp, ct, cnt) ==
    IF rq = <<>> /\ crp = None /\ cnt = Len(all_processes)
    THEN [pc |-> "display", idle |-> 0]
    ELSE IF rq = <<>> /\ crp = None /\ cnt < Len(all_processes)
    THEN IF FutureArrivals(P, ct) # {}
         THEN LET d == IdleDuration(NextArrivalTime(P, ct), ct)
              IN IF d > 0 THEN [pc |-> "rr_jump", idle |-> d]
                 ELSE [pc |-> LoopPc("rr_head", cnt), idle |-> 0]
         ELSE [pc |-> "display", idle |-> 0]
    ELSE [pc |-> LoopPc("rr_head", cnt), idle |-> 0]

\* the resets of run_round_robin up to its loop
run_round_robin(quantum) ==
    /\ pc = "cli"
    /\ current_strategy' = "rr"
    /\ time_quantum' = quantum
    /\ current_time' = 0
    /\ cpu_idle_time' = 0
    /\ gantt_chart' = <<>>
    /\ ready_queue' = <<>>
    /\ procs' = ResetAll(procs)
    /\ completed_processes_count' = 0
    /\ admit_log' = <<>>
    /\ pc' = LoopPc("rr_head", 0)
    /\ start_exec_time' = 0
    /\ cli_output' = ""
    /\ UNCHANGED <<next_pid, all_processes, current_running_process, slice_left,
                   idle_left, first_run>>

\* "if quantum <= 0" of the run rr command, negated
ValidQuantum(quantum) == ~(quantum <= 0)

\* the "run rr <quantum>" command: the validation, then run_round_robin
RunRRCmd(quantum) ==
    IF ValidQuantum(quantum)
    THEN run_round_robin(quantum)
    ELSE /\ pc = "cli"
         /\ cli_output' = "invalid_quantum"
         /\ UNCHANGED <<next_pid, procs, all_processes, schedVars, runLocals,
                        current_strategy, pc, admit_log, first_run>>

\* the admission at the head of the loop
RRAdmit ==
    /\ pc = "rr_head"
    /\ ready_queue' = AddArriving(procs, ready_queue, current_time, current_running_process)
    /\ admit_log' = admit_log \o NewlyArrived(procs, ready_queue, current_time, current_running_process)
    /\ pc' = "rr_exec"
    /\ UNCHANGED <<cli_output, next_pid,
                   procs, all_processes, current_time, cpu_idle_time,
                   current_running_process, gantt_chart, runLocals,
                   current_strategy, first_run>>

\* the dispatch and the length of the slice
RRDispatch ==
    /\ pc = "rr_exec"
    /\ current_running_process # None \/ ready_queue # <<>>
    /\ LET pick == ShouldDispatch(current_running_process, ready_queue)
           crp  == IF pick THEN Head(ready_queue) ELSE current_running_process
           p1   == IF pick THEN Dispatched(procs[crp], current_time) ELSE procs[crp]
       IN /\ current_running_process' = crp
          /\ ready_queue' = IF pick THEN Tail(ready_queue) ELSE ready_queue
          /\ procs' = [procs EXCEPT ![crp] = p1]
          /\ slice_left' = ExecutionSlice(p1, time_quantum)
    /\ pc' = "rr_slice"
    /\ start_exec_time' = current_time
    /\ UNCHANGED <<cli_output, next_pid,
                   all_processes, current_time, cpu_idle_time,
                   gantt_chart, completed_processes_count, time_quantum,
                   idle_left, current_strategy, admit_log, first_run>>

\* one tick of the slice, and the admission after it
RRSliceTick ==
    /\ pc = "rr_slice"
    /\ slice_left > 0
    /\ LET crp == current_running_process
           P   == [procs EXCEPT ![crp].remaining_burst_time = @ - 1]
           ct  == current_time + 1
       IN /\ procs' = P
          /\ current_time' = ct
          /\ gantt_chart' = Append(gantt_chart, GanttTick(crp, ct))
          /\ ready_queue' = AddArriving(P, ready_queue, ct, crp)
          /\ admit_log' = admit_log \o NewlyArrived(P, ready_queue, ct, crp)
    /\ slice_left' = slice_left - 1
    /\ UNCHANGED <<start_exec_time, cli_output, next_pid,
                   all_processes, cpu_idle_time,
                   current_running_process, completed_processes_count,
                   time_quantum, idle_left, current_strategy, pc, first_run>>

\* a preempted process put at the head of the ready queue
RequeueAtHead(rq, p) == <<p>> \o rq

\* self.ready_queue.append(self.current_running_process) of the preemption
Requeue(rq, p) == Append(rq, p)

\* the end of the slice: completion or preemption, then the end of the iteration
RRSliceEnd ==
    /\ pc = "rr_slice"
    /\ slice_left = 0
    /\ LET crp == current_running_process
           fin == IsCompleted(procs[crp])
           P   == IF fin THEN [procs EXCEPT ![crp] = Completed(procs[crp], current_time)]
                  ELSE procs
           rq  == IF fin THEN ready_queue ELSE Requeue(ready_queue, crp)
           cnt == IF fin THEN completed_processes_count + 1 ELSE completed_processes_count
           e   == RRLoopEnd(P, rq, None, current_time, cnt)
       IN /\ procs' = P
          /\ ready_queue' = rq
          /\ completed_processes_count' = cnt
          /\ current_running_process' = None
          /\ pc' = e.pc
          /\ idle_left' = e.idle
    /\ UNCHANGED <<start_exec_time, cli_output, next_pid,
                   all_processes, current_time, cpu_idle_time,
                   gantt_chart, time_quantum, slice_left, current_strategy,
                   admit_log, first_run>>

\* one iteration without an occupant: one idle tick, then the end of the iteration
RRIdleTick ==
    /\ pc = "rr_exec"
    /\ current_running_process = None
    /\ ready_queue = <<>>
    /\ cpu_idle_time' = cpu_idle_time + 1
    /\ current_time' = current_time + 1
    /\ gantt_chart' = Append(gantt_chart, GanttTick(IdlePid, current_time + 1))
    /\ LET e == RRLoopEnd(procs, ready_queue, current_running_process,
                          current_time + 1, completed_processes_count)
       IN /\ pc' = e.pc
          /\ idle_left' = e.idle
    /\ UNCHANGED <<start_exec_time, cli_output, next_pid,
                   procs, all_processes, ready_queue,
                   current_running_process, completed_processes_count,
                   time_quantum, slice_left, current_strategy, admit_log,
                   first_run>>

\* one tick of the idle advance to the next arrival
RRJumpTick ==
    /\ pc = "rr_jump"
    /\ idle_left > 0
    /\ cpu_idle_time' = cpu_idle_time + 1
    /\ current_time' = current_time + 1
    /\ gantt_chart' = Append(gantt_chart, GanttTick(IdlePid, current_time + 1))
    /\ idle_left' = idle_left - 1
    /\ pc' = IF idle_left = 1 THEN LoopPc("rr_head", completed_processes_count)
             ELSE "rr_jump"
    /\ UNCHANGED <<start_exec_time, cli_output, next_pid,
                   procs, all_processes, ready_queue,
                   current_running_process, completed_processes_count,
                   time_quantum, slice_left, current_strategy, admit_log,
                   first_run>>

\* display_results, and the return of the run method to the prompt: its
\* locals are gone
display_results ==
    /\ pc = "display"
    /\ pc' = "cli"
    /\ first_run' = IF first_run = <<>> THEN <<Report>> ELSE first_run
    /\ cli_output' = "results"
    /\ completed_processes_count' = 0
    /\ slice_left' = 0
    /\ idle_left' = 0
    /\ start_exec_time' = 0
    /\ UNCHANGED <<next_pid, procs, all_processes, schedVars, time_quantum,
                   current_strategy, admit_log>>

Next ==
    \/ \E a \in 0..MaxArrival, b \in 1..MaxBurst : CreateProcess(a, b)
    \/ \E p \in 1..MaxProcs : add_process(p)
    \/ ResetCmd
    \/ run_fcfs
    \/ FcfsAdmit
    \/ FcfsRunTick
    \/ FcfsIdleTick
    \/ \E q \in 1..MaxQuantum : run_round_robin(q)
    \/ RRAdmit
    \/ RRDispatch
    \/ RRSliceTick
    \/ RRSliceEnd
    \/ RRIdleTick
    \/ RRJumpTick
    \/ display_results

Spec == Init /\ [][Next]_vars

\* the steps of a run in progress
RunStep ==
    \/ FcfsAdmit \/ FcfsRunTick \/ FcfsIdleTick
    \/ RRAdmit \/ RRDispatch \/ RRSliceTick \/ RRSliceEnd \/ RRIdleTick
    \/ RRJumpTick \/ display_results

\* the program as run_cli drives it: every process is registered as it is
\* created, and the commands validate what was typed
CliNext ==
    \/ \E a \in (-1)..MaxArrival, b \in 0..MaxBurst : AddCmd(a, b)
    \/ ResetCmd
    \/ run_fcfs
    \/ \E q \in (-1)..MaxQuantum : RunRRCmd(q)
    \/ RunStep

CliSpec == Init /\ [][CliNext]_vars

\* ------------------------------------------------------------- properties
Registered == Range(all_processes)

\* the run has left its loop and is about to report
RunEnded == pc = "display"

\* the next step of the run executes one tick at the current clock
AtTick ==
    \/ pc \in {"fcfs_exec", "rr_exec"}
    \/ pc = "rr_slice" /\ slice_left > 0
    \/ pc = "rr_jump" /\ idle_left > 0

\* the number of Gantt chart entries of pid
TicksOf(pid) == Cardinality({i \in 1..Len(gantt_chart) : gantt_chart[i][1] = pid})

\* C1: when a run method returns, every registered process has a set
\* completion time and no remaining burst.
C1_RunEndsWhenAllCompleted ==
    RunEnded =>
        \A p \in Registered :
            /\ procs[p].completion_time # None
            /\ procs[p].remaining_burst_time = 0

\* C2: at every point the Gantt chart entries, in append order, tile
\* [0, current_time): the first starts at 0, each starts where the previous
\* one ended, none is empty, and the last ends at the clock.
C2_TraceTilesClock ==
    /\ \A i \in 1..Len(gantt_chart) :
        /\ gantt_chart[i][2] = (IF i = 1 THEN 0 ELSE gantt_chart[i - 1][3])
        /\ gantt_chart[i][2] < gantt_chart[i][3]
    /\ current_time = (IF gantt_chart = <<>> THEN 0
                       ELSE gantt_chart[Len(gantt_chart)][3])

\* a Round Robin run that followed an FCFS run on the same set has ended, and
\* its chart holds idle ticks and ticks of two processes
C2_Witness ==
    /\ RunEnded
    /\ current_strategy = "rr"
    /\ first_run # <<>>
    /\ first_run[1].strategy = "fcfs"
    /\ Len(first_run[1].trace) >= 4
    /\ TicksOf(IdlePid) >= 2
    /\ \E p, q \in Registered : p # q /\ TicksOf(p) >= 1 /\ TicksOf(q) >= 1

\* C3: after a run, for every registered process completion_time >=
\* start_time >= arrival_time, turnaround_time = completion_time -
\* arrival_time and waiting_time = turnaround_time - burst_time >= 0.
C3_MetricsOrdered ==
    RunEnded =>
        \A p \in Registered :
            /\ procs[p].completion_time # None
            /\ procs[p].start_time # None
            /\ procs[p].completion_time >= procs[p].start_time
            /\ procs[p].start_time >= procs[p].arrival_time
            /\ procs[p].turnaround_time = procs[p].completion_time - procs[p].arrival_time
            /\ procs[p].waiting_time = procs[p].turnaround_time - procs[p].burst_time
            /\ procs[p].waiting_time >= 0

\* the four states of a process at a tick
NotYetArrived(p) == procs[p].arrival_time > current_time
InReadyQueue(p) == p \in Range(ready_queue)
IsRunning(p) == current_running_process = p
HasCompleted(p) == procs[p].remaining_burst_time = 0

StatesOf(p) ==
    (IF NotYetArrived(p) THEN {"not_arrived"} ELSE {})
    \cup (IF InReadyQueue(p) THEN {"ready"} ELSE {})
    \cup (IF IsRunning(p) THEN {"running"} ELSE {})
    \cup (IF HasCompleted(p) THEN {"completed"} ELSE {})

\* C4: at any tick of a run every registered process is in exactly one of
\* not yet arrived, ready queue, running, completed, and is in the ready
\* queue at most once.
C4_ExactlyOneState ==
    AtTick =>
        /\ \A p \in Registered : Cardinality(StatesOf(p)) = 1
        /\ \A i, j \in 1..Len(ready_queue) : ready_queue[i] = ready_queue[j] => i = j

\* the quantum is at least every burst, so the Round Robin run never preempts
NoPreemptionQuantum ==
    \A p \in Registered : procs[p].burst_time <= time_quantum

\* C5: a Round Robin run whose quantum is at least every burst ends with the
\* report of the FCFS run on the same set: the same total ticks, idle total,
\* trace and per-process start and completion times.
C5_IdleSkipEquivalence ==
    (/\ RunEnded
     /\ current_strategy = "rr"
     /\ NoPreemptionQuantum
     /\ first_run # <<>>
     /\ first_run[1].strategy = "fcfs")
    => /\ current_time = first_run[1].total
       /\ cpu_idle_time = first_run[1].idle
       /\ gantt_chart = first_run[1].trace
       /\ \A p \in Registered :
            /\ procs[p].start_time = first_run[1].table[p].start_time
            /\ procs[p].completion_time = first_run[1].table[p].completion_time

\* C6: under run_fcfs the ticks of a dispatched process are one contiguous
\* block of the chart that begins at its start time; until it completes it
\* stays the occupant and the clock stands at the end of that block, so no
\* other process and no idle tick comes in between; it completes at
\* start_time + burst_time.
C6_FcfsNeverPreempts ==
    current_strategy = "fcfs" =>
        \A p \in Registered :
            procs[p].start_time # None =>
                LET s == procs[p].start_time
                    n == procs[p].burst_time - procs[p].remaining_burst_time
                IN /\ n >= 1
                   /\ \A i \in 1..Len(gantt_chart) :
                        gantt_chart[i][1] = p
                            <=> (s <= gantt_chart[i][2] /\ gantt_chart[i][2] < s + n)
                   /\ procs[p].remaining_burst_time > 0 =>
                        /\ current_running_process = p
                        /\ current_time = s + n
                   /\ procs[p].remaining_burst_time = 0 =>
                        procs[p].completion_time = s + procs[p].burst_time

\* an FCFS run in which a process has run one tick of a longer burst while
\* another process waits in the ready queue
C6_Witness ==
    /\ current_strategy = "fcfs"
    /\ pc = "fcfs_exec"
    /\ current_running_process # None
    /\ procs[current_running_process].remaining_burst_time > 0
    /\ procs[current_running_process].remaining_burst_time
         < procs[current_running_process].burst_time
    /\ ready_queue # <<>>

\* C7: under run_round_robin a process with a set completion time has exactly
\* burst_time ticks in the chart, none of them after its completion time.
C7_RoundRobinTicksEqualBurst ==
    current_strategy = "rr" =>
        \A p \in Registered :
            procs[p].completion_time # None =>
                /\ TicksOf(p) = procs[p].burst_time
                /\ \A i \in 1..Len(gantt_chart) :
                     gantt_chart[i][1] = p => gantt_chart[i][3] <= procs[p].completion_time

\* a Round Robin run has completed a process whose ticks are two separate
\* slices with another process in between
C7_Witness ==
    /\ current_strategy = "rr"
    /\ \E p \in Registered :
         /\ procs[p].completion_time # None
         /\ \E i, j, k \in 1..Len(gantt_chart) :
              /\ i < j /\ j < k
              /\ gantt_chart[i][1] = p
              /\ gantt_chart[j][1] \notin {p, IdlePid}
              /\ gantt_chart[k][1] = p

\* the run has done its resets and nothing else
JustReset ==
    /\ pc \in {"fcfs_head", "rr_head", "display"}
    /\ gantt_chart = <<>>

SameRunAsFirst ==
    /\ first_run # <<>>
    /\ first_run[1].strategy = current_strategy
    /\ first_run[1].quantum = time_quantum

\* C8: a run starts from the state a first run starts from, whatever ran
\* before (clock, idle total, ready queue and occupant cleared, every
\* registered process as constructed), and a run that repeats the first run
\* on the registered set ends with the report of that first run.
C8_RunsReproducible ==
    /\ JustReset =>
        /\ current_time = 0
        /\ cpu_idle_time = 0
        /\ ready_queue = <<>>
        /\ current_running_process = None
        /\ completed_processes_count = 0
        /\ \A p \in Registered :
             procs[p] = NewProcess(p, procs[p].arrival_time, procs[p].burst_time)
    /\ (RunEnded /\ SameRunAsFirst) => Report = first_run[1]

\* a Round Robin run with preemption has ended that repeats the first run on
\* a set of two processes
C8_Witness ==
    /\ RunEnded
    /\ SameRunAsFirst
    /\ current_strategy = "rr"
    /\ Len(all_processes) = 2
    /\ C7_Witness

\* C9: in every run, two registered processes with equal arrival time enter
\* the ready queue in pid order, whatever the order of registration: the
\* higher pid is admitted only after the lower pid.
C9_TieBreakByPid ==
    pc # "cli" =>
        \A p, q \in Registered :
            (p < q /\ procs[p].arrival_time = procs[q].arrival_time) =>
                \A j \in 1..Len(admit_log) :
                    admit_log[j] = q => \E i \in 1..(j - 1) : admit_log[i] = p

\* two processes with equal arrival time, registered higher pid first, have
\* both been admitted
C9_Witness ==
    /\ pc # "cli"
    /\ Len(all_processes) = 2
    /\ all_processes[1] > all_processes[2]
    /\ procs[all_processes[1]].arrival_time = procs[all_processes[2]].arrival_time
    /\ Len(admit_log) = 2

SumOfBursts == LET RECURSIVE Sum(_)
                   Sum(S) == IF S = {} THEN 0
                             ELSE LET x == CHOOSE x \in S : TRUE
                                  IN procs[x].burst_time + Sum(S \ {x})
               IN Sum(Registered)

MaxOfArrivals ==
    IF Registered = {} THEN 0
    ELSE CHOOSE a \in {procs[p].arrival_time : p \in Registered} :
            \A p \in Registered : procs[p].arrival_time <= a

\* the ticks the bound still allows
TicksLeft == SumOfBursts + MaxOfArrivals - current_time

\* the steps a run takes at most between two ticks, by position
StepsToTick ==
    CASE pc = "cli" -> 0
      [] pc = "display" -> 1
      [] pc = "fcfs_exec" -> 1
      [] pc = "fcfs_head" -> 2
      [] pc = "rr_jump" -> 2
      [] pc = "rr_slice" /\ slice_left > 0 -> 2
      [] pc = "rr_exec" -> 3
      [] pc = "rr_head" -> 4
      [] pc = "rr_slice" /\ slice_left <= 0 -> 5

\* a measure of the steps a run has left
StepsLeft == 6 * TicksLeft + StepsToTick

\* C10: the clock never exceeds the sum of the burst times plus the largest
\* arrival time of the registered processes, and every run returns after
\* finitely many steps: a run in progress can always take a step, and each
\* step taken while a run is in progress lowers a measure that is never
\* negative.
C10_RunTerminatesWithinBound ==
    /\ [](current_time <= SumOfBursts + MaxOfArrivals)
    /\ [](pc # "cli" => ENABLED RunStep)
    /\ [][pc # "cli" => (StepsLeft' < StepsLeft /\ StepsLeft' >= 0)]_vars

\* the run methods run to their end without waiting for anything
FairSpec == Spec /\ WF_vars(RunStep)

\* every run that starts returns to the prompt
RunsReturn == [](pc # "cli" => <>(pc = "cli"))

\* a run has ended after idle ticks with the clock exactly at the bound
C10_Witness ==
    /\ RunEnded
    /\ Registered # {}
    /\ cpu_idle_time > 0
    /\ current_time = SumOfBursts + MaxOfArrivals

\* some registered process still has burst left
SomeIncomplete == \E p \in Registered : procs[p].remaining_burst_time > 0

\* C11: in run_round_robin, whenever the ready queue is empty, there is no
\* occupant and some registered process is incomplete once the run has left
\* its loop, an incomplete process with a later arrival exists: the run never
\* ends through the branch that finds no future arrival, so it never returns
\* a partial report.
C11_IdleAdvanceAlwaysFindsArrival ==
    (/\ current_strategy = "rr"
     /\ RunEnded
     /\ ready_queue = <<>>
     /\ current_running_process = None
     /\ SomeIncomplete)
    => FutureArrivals(procs, current_time) # {}

\* ---- Scenario C: P1 = (arrival 0, burst 5), P2 = (arrival 1, burst 3) ----

\* the inputs of the scenario
ScenarioC == [arrival |-> <<0, 1>>, burst |-> <<5, 3>>, quantum |-> 2]

\* the state after "add 0 5" and "add 1 3" at a fresh prompt
ScenarioCInit ==
    /\ next_pid = FirstPid + 2
    /\ procs = <<NewProcess(FirstPid, ScenarioC.arrival[1], ScenarioC.burst[1]),
                 NewProcess(FirstPid + 1, ScenarioC.arrival[2], ScenarioC.burst[2])>>
    /\ all_processes = SortByArrival(<<FirstPid, FirstPid + 1>>, procs)
    /\ ready_queue = <<>>
    /\ current_time = 0
    /\ cpu_idle_time = 0
    /\ current_running_process = None
    /\ gantt_chart = <<>>
    /\ completed_processes_count = 0
    /\ time_quantum = None
    /\ slice_left = 0
    /\ idle_left = 0
    /\ start_exec_time = 0
    /\ current_strategy = "none"
    /\ cli_output = "added"
    /\ pc = "cli"
    /\ admit_log = <<>>
    /\ first_run = <<>>

\* the runs of the two registered processes: with one of them arriving at 0
\* and the other during the first burst, no iteration is without an occupant
ScenarioCNext ==
    \/ run_fcfs
    \/ FcfsAdmit
    \/ FcfsRunTick
    \/ \E q \in 1..MaxQuantum : run_round_robin(q)
    \/ RRAdmit
    \/ RRDispatch
    \/ RRSliceTick
    \/ RRSliceEnd
    \/ display_results

ScenarioCSpec == ScenarioCInit /\ [][ScenarioCNext]_vars

\* the trace of Scenario C: P1 [0,2), P2 [2,4), P1 [4,6), P2 [6,7), P1 [7,8)
ScenarioCTrace ==
    <<<<1, 0, 1>>, <<1, 1, 2>>, <<2, 2, 3>>, <<2, 3, 4>>,
      <<1, 4, 5>>, <<1, 5, 6>>, <<2, 6, 7>>, <<1, 7, 8>>>>

\* the run of the scenario: Round-Robin with the scenario's quantum
InScenarioCRun ==
    /\ pc # "cli"
    /\ current_strategy = "rr"
    /\ time_quantum = ScenarioC.quantum

\* the loop head right after a preemption at clock t
PreemptedAt(t) ==
    /\ pc = "rr_head"
    /\ current_time = t
    /\ current_running_process = None
    /\ Len(gantt_chart) = t

\* C12: in the Round-Robin run of Scenario C with quantum 2 the trace grows
\* along P1 [0,2), P2 [2,4), P1 [4,6), P2 [6,7), P1 [7,8); P2 is admitted at
\* tick 1, behind nothing but P1's admission at 0; the three preemptions leave
\* remaining bursts 3 (P1 at 2), 1 (P2 at 4) and 1 (P1 at 6); P2 completes at
\* 7 and P1 at 8, and the run ends with 8 ticks of which none is idle.
C12_ScenarioC ==
    InScenarioCRun =>
        /\ gantt_chart = SubSeq(ScenarioCTrace, 1, current_time)
        /\ cpu_idle_time = 0
        /\ admit_log = SubSeq(<<1, 2>>, 1, Len(admit_log))
        /\ 2 \in Range(admit_log) <=> current_time >= 1
        /\ PreemptedAt(2) => /\ procs[1].remaining_burst_time = 3
                             /\ ready_queue = <<2, 1>>
        /\ PreemptedAt(4) => /\ procs[2].remaining_burst_time = 1
                             /\ ready_queue = <<1, 2>>
        /\ PreemptedAt(6) => /\ procs[1].remaining_burst_time = 1
                             /\ ready_queue = <<2, 1>>
        /\ procs[2].completion_time = IF current_time >= 7 /\ current_running_process # 2
                                      THEN 7 ELSE None
        /\ procs[1].completion_time = IF RunEnded THEN 8 ELSE None
        /\ RunEnded => /\ current_time = 8
                       /\ gantt_chart = ScenarioCTrace
                       /\ Report.total = 8
                       /\ Report.idle = 0

\* the run of Scenario C has ended with both processes completed
C12_Witness ==
    /\ InScenarioCRun
    /\ RunEnded
    /\ gantt_chart = ScenarioCTrace
    /\ procs[2].completion_time = 7
    /\ procs[1].completion_time = 8

\* ---- malformed input at the prompt ----

\* what the scheduler, the processes and the pid counter hold, and where the
\* program is
EngineState ==
    <<next_pid, procs, all_processes, schedVars, runLocals, current_strategy, pc,
      admit_log, first_run>>

\* an "add" step with arrival < 0 or burst <= 0
MalformedAdd ==
    \E a \in (-1)..MaxArrival, b \in 0..MaxBurst : (a < 0 \/ b <= 0) /\ AddCmd(a, b)

\* a "run rr" step with quantum <= 0
MalformedRunRR == \E q \in (-1)..MaxQuantum : q <= 0 /\ RunRRCmd(q)

\* C13: an add with arrival < 0 or burst <= 0 and a Round-Robin run with
\* quantum <= 0 change nothing but the message printed: the registered set,
\* the pid counter and every process's fields stay as they were and the
\* program stays at the prompt, no run started.
C13_MalformedInputRejected ==
    [][(MalformedAdd \/ MalformedRunRR) =>
           /\ UNCHANGED EngineState
           /\ pc' = "cli"
           /\ cli_output' \in {"invalid_process", "invalid_quantum"}]_vars

\* a malformed command has just been rejected with a process registered and
\* a run behind it
C13_Witness ==
    /\ cli_output \in {"invalid_process", "invalid_quantum"}
    /\ all_processes # <<>>
    /\ gantt_chart # <<>>
    /\ pc = "cli"

\* ---- a run with nothing registered ----

\* C14: a run of either policy with no process registered goes straight to
\* its report: the loop body is never entered, the clock and the idle time
\* are 0, the utilization is 0, the Gantt chart is empty and the metrics
\* table has no row.
C14_EmptyRunReportsZero ==
    (pc # "cli" /\ all_processes = <<>>) =>
        /\ RunEnded
        /\ current_strategy \in {"fcfs", "rr"}
        /\ Report.total = 0
        /\ Report.idle = 0
        /\ Report.utilization = 0
        /\ Report.trace = <<>>
        /\ DOMAIN Report.table = {}
        /\ ENABLED display_results

\* a Round-Robin run with nothing registered has ended, after an FCFS run
\* with nothing registered has been reported
C14_Witness ==
    /\ RunEnded
    /\ all_processes = <<>>
    /\ current_strategy = "rr"
    /\ first_run # <<>>
    /\ first_run[1].strategy = "fcfs"
    /\ first_run[1].total = 0
    /\ DOMAIN first_run[1].table = {}

\* ---- order of admission ----

\* p was admitted to the ready queue before q in the run at hand
AdmittedBefore(p, q) ==
    \E i, j \in 1..Len(admit_log) : i < j /\ admit_log[i] = p /\ admit_log[j] = q

\* the process the last executed tick belongs to has just been preempted
JustPreempted(p) ==
    /\ pc \in {"rr_head", "rr_exec"}
    /\ current_running_process = None
    /\ gantt_chart # <<>>
    /\ gantt_chart[Len(gantt_chart)][1] = p
    /\ p # IdlePid
    /\ procs[p].remaining_burst_time > 0

\* C15: within a run of either policy, of two registered processes the one
\* with the strictly earlier arrival time enters the ready queue first and is
\* first dispatched no later than the other; a preempted process is at the
\* tail of the ready queue.
C15_FifoAdmission ==
    pc # "cli" =>
        /\ \A a, b \in Registered :
               procs[a].arrival_time < procs[b].arrival_time =>
                   /\ b \in Range(admit_log) => AdmittedBefore(a, b)
                   /\ procs[b].start_time # None =>
                          /\ procs[a].start_time # None
                          /\ procs[a].start_time <= procs[b].start_time
        /\ \A p \in Registered :
               JustPreempted(p) => ready_queue[Len(ready_queue)] = p

\* ---- the Round-Robin slice ----

\* the slice of the occupant has run its last tick; the completion test is next
SliceEnded == pc = "rr_slice" /\ slice_left = 0

\* the registered processes other than p that have arrived by the clock and
\* are not completed
ArrivedWaiting(p) ==
    {q \in Registered \ {p} : /\ procs[q].arrival_time <= current_time
                              /\ procs[q].remaining_burst_time > 0}

\* the ticks of the slice that has ended, counted on the clock
SliceTicks == current_time - start_exec_time

\* C16: when a Round-Robin slice has ended, its process has run
\* min(remaining burst at dispatch, quantum) ticks, which are the last
\* entries of the Gantt chart, one after the other from the dispatch; every
\* other uncompleted process with arrival time at most the clock, one
\* arriving at the slice-end tick included, is in the ready queue; and a
\* preemption appends the process behind them, leaving their order as it was.
C16_SliceAndPreemptionOrder ==
    /\ [](SliceEnded =>
            LET p == current_running_process
            IN /\ SliceTicks >= 1
               /\ SliceTicks = Min(procs[p].remaining_burst_time + SliceTicks, time_quantum)
               /\ Len(gantt_chart) = current_time
               /\ \A t \in (start_exec_time + 1)..current_time :
                      gantt_chart[t] = <<p, t - 1, t>>
               /\ ArrivedWaiting(p) \subseteq Range(ready_queue))
    /\ [][(SliceEnded /\ procs[current_running_process].remaining_burst_time > 0) =>
              /\ ready_queue' = ready_queue \o <<current_running_process>>
              /\ current_running_process' = None
              /\ ArrivedWaiting(current_running_process) \subseteq
                     {ready_queue'[i] : i \in 1..(Len(ready_queue') - 1)}]_vars

\* a process has just been preempted behind another one that arrived at the
\* very tick its slice ended
C16_Witness ==
    \E p \in Registered :
        /\ JustPreempted(p)
        /\ Len(ready_queue) = 2
        /\ ready_queue[2] = p
        /\ procs[ready_queue[1]].arrival_time = current_time
        /\ procs[ready_queue[1]].start_time = None

\* ---- start time and response time ----

\* the start of the first Gantt entry of p
FirstTickStart(p) ==
    LET i == CHOOSE i \in 1..Len(gantt_chart) :
                 /\ gantt_chart[i][1] = p
                 /\ \A j \in 1..(i - 1) : gantt_chart[j][1] # p
    IN gantt_chart[i][2]

\* the clock at the first dispatch of p in the run at hand, None before it
FirstDispatchClock(p) ==
    IF TicksOf(p) > 0 THEN FirstTickStart(p)
    ELSE IF current_running_process = p THEN current_time
    ELSE None

\* C17: within a run the start time of a process is unset until its first
\* dispatch and is the clock of that dispatch from then on, its response time
\* is unset with it and start_time - arrival_time otherwise, and no step of
\* the run (tick, preemption, re-dispatch, completion with calculate_metrics,
\* report) changes either once set.
C17_StartAndResponseSetOnce ==
    /\ [](pc # "cli" =>
            \A p \in Registered :
                /\ procs[p].start_time = FirstDispatchClock(p)
                /\ procs[p].response_time =
                       IF procs[p].start_time = None THEN None
                       ELSE procs[p].start_time - procs[p].arrival_time)
    /\ [][pc # "cli" =>
              \A p \in Registered :
                  procs[p].start_time # None =>
                      /\ procs'[p].start_time = procs[p].start_time
                      /\ procs'[p].response_time = procs[p].response_time]_vars

\* a preempted process has been dispatched again, later than its start time
C17_Witness ==
    /\ pc = "rr_slice"
    /\ current_running_process # None
    /\ TicksOf(current_running_process) > 0
    /\ start_exec_time = current_time
    /\ procs[current_running_process].start_time < current_time - 1
    /\ procs[current_running_process].response_time > 0

\* ---- remaining burst and completion time ----

\* the end of the last Gantt entry of p
LastTickEnd(p) ==
    LET i == CHOOSE i \in 1..Len(gantt_chart) :
                 /\ gantt_chart[i][1] = p
                 /\ \A j \in (i + 1)..Len(gantt_chart) : gantt_chart[j][1] # p
    IN gantt_chart[i][3]

\* the occupant's slice has run its last tick and the completion test of the
\* same iteration has not been reached yet
CompletionPending(p) == SliceEnded /\ current_running_process = p

\* C18: within a run of either policy (quantum >= 1) the remaining burst of
\* every process is between 0 and its burst time; its completion time is set
\* exactly when its remaining burst is 0, to the end of the tick that brought
\* it to 0; and once set it is not changed by any later step of the run.
\* The states between a slice's last tick and the completion test of the same
\* loop iteration are the one place where the remaining burst is 0 and the
\* completion time is about to be set.
C18_RemainingAndCompletion ==
    /\ [](pc # "cli" =>
            \A p \in Registered :
                /\ procs[p].remaining_burst_time \in 0..procs[p].burst_time
                /\ procs[p].remaining_burst_time = procs[p].burst_time - TicksOf(p)
                /\ ~CompletionPending(p) =>
                       (procs[p].completion_time # None <=> procs[p].remaining_burst_time = 0)
                /\ CompletionPending(p) => procs[p].completion_time = None
                /\ procs[p].completion_time # None =>
                       /\ procs[p].remaining_burst_time = 0
                       /\ procs[p].completion_time = LastTickEnd(p))
    /\ [][pc # "cli" =>
              \A p \in Registered :
                  procs[p].completion_time # None =>
                      procs'[p].completion_time = procs[p].completion_time]_vars

\* under Round-Robin one process has completed and another one, preempted
\* before, still has burst left
C18_Witness ==
    /\ pc # "cli"
    /\ current_strategy = "rr"
    /\ \E p, q \in Registered :
           /\ procs[p].completion_time # None
           /\ procs[p].completion_time < current_time
           /\ procs[q].remaining_burst_time > 0
           /\ procs[q].remaining_burst_time < procs[q].burst_time

\* ---- the order of all_processes ----

\* s is in ascending (arrival_time, pid) order
SortedByArrivalThenPid(s) ==
    \A i, j \in 1..Len(s) :
        i < j => \/ procs[s[i]].arrival_time < procs[s[j]].arrival_time
                 \/ /\ procs[s[i]].arrival_time = procs[s[j]].arrival_time
                    /\ s[i] < s[j]

\* C19: after any sequence of add_process calls, the processes registered in
\* any order relative to their creation, all_processes is in ascending
\* (arrival_time, pid) order.
C19_SortedByArrivalThenPid == SortedByArrivalThenPid(all_processes)

\* s is in ascending arrival_time order
SortedByArrival(s) ==
    \A i, j \in 1..Len(s) :
        i < j => procs[s[i]].arrival_time <= procs[s[j]].arrival_time

\* C19, amended: all_processes is in ascending arrival_time order, and
\* add_process puts the new process behind every registered process whose
\* arrival time is at most its own, the others keeping their order: arrival
\* ties are in registration order.
C19_SortedByArrivalStable ==
    /\ [](SortedByArrival(all_processes))
    /\ [][\A p \in 1..MaxProcs :
              add_process(p) =>
                  LET k == IndexOf(all_processes', p)
                  IN /\ SelectSeq(all_processes', LAMBDA x : x # p) = all_processes
                     /\ \A i \in 1..(k - 1) :
                            procs[all_processes'[i]].arrival_time <= procs[p].arrival_time
                     /\ \A i \in (k + 1)..Len(all_processes') :
                            procs[all_processes'[i]].arrival_time > procs[p].arrival_time]_vars

\* two processes with the same arrival time, registered against their
\* creation order
C19_Witness ==
    /\ Len(all_processes) = 2
    /\ all_processes[1] > all_processes[2]
    /\ procs[all_processes[1]].arrival_time = procs[all_processes[2]].arrival_time

\* ---- work conservation ----

\* the process p could have run in the tick [t, t + 1): it had arrived and
\* was not completed by t
RunnableAt(p, t) ==
    /\ procs[p].arrival_time <= t
    /\ \/ procs[p].completion_time = None
       \/ procs[p].completion_time > t

\* C20: within a run of either policy, every idle interval [t, t + 1) of the
\* Gantt chart lies where no registered process that had arrived by t was
\* still incomplete; the idle ticks of an idle advance are among them, so the
\* advance does not pass the arrival of an incomplete process.
C20_WorkConservation ==
    pc # "cli" =>
        \A i \in 1..Len(gantt_chart) :
            gantt_chart[i][1] = IdlePid =>
                \A p \in Registered : ~RunnableAt(p, gantt_chart[i][2])

\* ---- the order of an FCFS run ----

\* (arrival_time, pid) of a is less than that of b
ArrivesFirst(a, b) ==
    \/ procs[a].arrival_time < procs[b].arrival_time
    \/ /\ procs[a].arrival_time = procs[b].arrival_time
       /\ a < b

\* C21: within a run of run_fcfs, of two registered processes the one that is
\* less in (arrival_time, pid) has completed by the time the other is first
\* dispatched: the other has a start time only if the first has a completion
\* time, which is at most that start time.
C21_FcfsOrder ==
    (pc # "cli" /\ current_strategy = "fcfs") =>
        \A a, b \in Registered :
            (ArrivesFirst(a, b) /\ procs[b].start_time # None) =>
                /\ procs[a].completion_time # None
                /\ procs[a].completion_time <= procs[b].start_time

\* an FCFS run has ended for two processes with the same arrival time that
\* were registered against their creation order: the one created first ran
\* first
C21_Witness ==
    /\ RunEnded
    /\ current_strategy = "fcfs"
    /\ Len(all_processes) = 2
    /\ all_processes[1] = 2
    /\ procs[1].arrival_time = procs[2].arrival_time
    /\ procs[1].completion_time = procs[2].start_time
    /\ procs[2].completion_time = current_time

\* ---- idle accounting ----

\* the total length of the Gantt entries that carry pid
RECURSIVE LengthOf(_, _)
LengthOf(pid, g) ==
    IF g = <<>> THEN 0
    ELSE (IF Head(g)[1] = pid THEN Head(g)[3] - Head(g)[2] ELSE 0) + LengthOf(pid, Tail(g))

\* the sum of burst_time - remaining_burst_time over the processes of S
RECURSIVE BurstDone(_)
BurstDone(S) ==
    IF S = {} THEN 0
    ELSE LET x == CHOOSE x \in S : TRUE
         IN (procs[x].burst_time - procs[x].remaining_burst_time) + BurstDone(S \ {x})

\* C22: within a run of either policy cpu_idle_time is the total length of
\* the Gantt entries with pid 0, current_time is cpu_idle_time plus the sum
\* over the registered processes of burst_time - remaining_burst_time, and no
\* registered process has pid 0.
C22_IdleAccounting ==
    pc # "cli" =>
        /\ cpu_idle_time = LengthOf(IdlePid, gantt_chart)
        /\ current_time = cpu_idle_time + BurstDone(Registered)
        /\ \A p \in Registered : procs[p].pid # IdlePid

\* a second run on the same processes is under way after idle ticks and
\* executed ticks, one process still with burst left
C22_Witness ==
    /\ pc # "cli"
    /\ first_run # <<>>
    /\ cpu_idle_time > 0
    /\ BurstDone(Registered) > 0
    /\ \E p \in Registered : procs[p].remaining_burst_time > 0
====
